---------------------------- MODULE Spec2Model ----------------------------
(***************************************************************************)
(* Model of the gravity list/group resolution engine of FTL                *)
(* (src/src/database/gravity-db.c) and of the externally-blocked IP        *)
(* registry (src/external_blocked.c).                                      *)
(*                                                                         *)
(* The model follows one process lineage: Fork moves on to the forked      *)
(* child, which inherits the whole memory image (all file-level variables  *)
(* of gravity-db.c) while getpid() changes.  Every public function of      *)
(* gravity-db.c is one action; the functions it calls are operators that   *)
(* map a state record to the state record after the call.                  *)
(*                                                                         *)
(* The storage engine is modelled by two tables: stmts (the statement      *)
(* handles) and conns (the connections).  A handle is its index in the     *)
(* table, 0 is NULL; a slot nothing refers to any more is used again.      *)
(***************************************************************************)
EXTENDS Integers, Sequences, FiniteSets, TLC

\* ------------------------------------------------------------------ bounds
NumClients    == 2   \* counters->clients: number of known clients
MaxStmts      == 9   \* statement handles prepared in one run
MaxConns      == 3   \* connections opened in one run
MaxPid        == 2   \* process identities: 1 is the first process, each fork adds one
MaxFaults     == 2   \* failing library calls within one public call
MaxInitFaults == 1   \* add_blocked_IP calls of init_blocked_IP whose strdup may fail
MaxFaultPoint == 17  \* the latest fallible library call of one public call that may fail
MaxAuditLen   == 3   \* characters of an audited pattern and of a looked-up domain

\* ------------------------------------------------- gravity-db.h enumerations
GRAVITY_TABLE         == 0
EXACT_BLACKLIST_TABLE == 1
EXACT_WHITELIST_TABLE == 2
REGEX_BLACKLIST_TABLE == 3
REGEX_WHITELIST_TABLE == 4
UNKNOWN_TABLE         == 5
DB_FAILED             == -2

\* external_blocked.c: the number of addresses accepted per address family
maxIPs == 12

tablename(list) ==
    CASE list = GRAVITY_TABLE         -> "vw_gravity"
      [] list = EXACT_BLACKLIST_TABLE -> "vw_blacklist"
      [] list = EXACT_WHITELIST_TABLE -> "vw_whitelist"
      [] list = REGEX_BLACKLIST_TABLE -> "vw_regex_blacklist"
      [] list = REGEX_WHITELIST_TABLE -> "vw_regex_whitelist"
      [] OTHER                        -> ""

\* ------------------------------------------------ contents of the database
\* The list database is read-only for this code; its contents are fixed.
\* Domains are sequences of characters.
Dom1 == <<"g">>
Dom2 == <<"m", ".", "g">>
Domains == {Dom1, Dom2}

\* Rows of a view: <<domain, group_id, id>>.
ViewRows(table) ==
    CASE table = "vw_gravity"         -> {<<Dom1, 0, 1>>, <<Dom2, 1, 2>>}
      [] table = "vw_blacklist"       -> {<<Dom2, 0, 1>>}
      [] table = "vw_whitelist"       -> {<<Dom1, 1, 1>>}
      [] table = "vw_regex_blacklist" -> {<<Dom1, 0, 1>>, <<Dom2, 1, 2>>}
      [] table = "vw_regex_whitelist" -> {<<Dom2, 1, 1>>, <<Dom1, 0, 3>>}
      [] OTHER                        -> {}

Clients == 0 .. (NumClients - 1)

\* An image of the client table and its group associations: the c-th client
\* of the image that starts at first has a matching subnet record unless
\* first + c is a multiple of three; with remainder 1 the record is in group
\* 1, with remainder 2 it has no group association.
ClientTable(first) ==
    [c \in Clients |->
        [records |-> IF (first + c) % 3 = 0 THEN 0 ELSE 1,
         groups  |-> IF (first + c) % 3 = 1 THEN <<1>> ELSE << >>]]
NullVec == << >>
\* A null char pointer, and a null char** list.
NullAddr == "NULL"
NullList == << >>

VARIABLES
    pid,               \* getpid() of the process the model follows
    main_process,      \* gravity-db.c:38
    this_process,      \* gravity-db.c:38
    gravityDB_opened,  \* gravity-db.c:37
    gravity_db,        \* gravity-db.c:34, 0 is NULL
    whitelist_stmt,    \* gravity-db.c:29, NullVec or [Clients -> handle]
    gravity_stmt,      \* gravity-db.c:30
    blacklist_stmt,    \* gravity-db.c:31
    table_stmt,        \* gravity-db.c:35
    auditlist_stmt,    \* gravity-db.c:36
    per_client_regex,  \* the enabled bits set through set_per_client_regex
    stmts,             \* storage engine: the statement handles prepared so far
    conns,             \* storage engine: the connections opened so far
    crashed,           \* the process dereferenced a null pointer
    call,              \* the last public call: its arguments, result and trace
    client_table,      \* the client table of the database file, read only
    domain_audit,      \* the patterns of table domain_audit, read only
    blocked_IP_v4,     \* external_blocked.c:15, NullList or maxIPs slots
    blocked_IP_v6      \* external_blocked.c:16

vars == <<pid, main_process, this_process, gravityDB_opened, gravity_db,
          whitelist_stmt, gravity_stmt, blacklist_stmt, table_stmt,
          auditlist_stmt, per_client_regex, stmts, conns, crashed, call,
          client_table, domain_audit, blocked_IP_v4, blocked_IP_v6>>

\* The variables of gravity-db.c and the database file.
storeVars == <<pid, main_process, this_process, gravityDB_opened, gravity_db,
               whitelist_stmt, gravity_stmt, blacklist_stmt, table_stmt,
               auditlist_stmt, per_client_regex, stmts, conns, crashed,
               client_table, domain_audit>>

\* SELECT COUNT(*) FROM client WHERE subnet_match(ip, ...) = 1 for client c.
ClientRecords(c)   == client_table[c].records
\* The group ids of client_by_group for the record of client c.
ClientByGroup(c)   == client_table[c].groups

\* ------------------------------------------------------------ state records
\* The state at the start of a public call, as a record, together with the
\* per-call working fields: k counts the fallible library calls made so far,
\* faults names the ones that fail, log is the trace of the call, ret its
\* return value, groups the out-parameter of get_client_groupids and stmt the
\* local variable stmt of the predicates.
Cur(F) ==
    [pid |-> pid, main_process |-> main_process, this_process |-> this_process,
     gravityDB_opened |-> gravityDB_opened, gravity_db |-> gravity_db,
     whitelist_stmt |-> whitelist_stmt, gravity_stmt |-> gravity_stmt,
     blacklist_stmt |-> blacklist_stmt, table_stmt |-> table_stmt,
     auditlist_stmt |-> auditlist_stmt, per_client_regex |-> per_client_regex,
     stmts |-> stmts, conns |-> conns,
     crashed |-> FALSE, k |-> 0, faults |-> F, log |-> << >>,
     ret |-> FALSE, groups |-> << >>, stmt |-> 0, new |-> 0, oom |-> FALSE]

\* The state e after a step, handed to the rest F of the function.
With(e, F(_)) == F(e)
Ret(s, v)     == [s EXCEPT !.ret = v]
\* The next fallible library call fails.
Fails(s)      == (s.k + 1) \in s.faults
Tick(s)       == [s EXCEPT !.k = @ + 1]

\* --------------------------------------------------------- storage engine
\* Handles are slots of the tables stmts and conns, reused like heap
\* addresses once nothing refers to them.
FreeStmt == [conn |-> 0, sql |-> "free", groups |-> << >>, proc |-> 0,
             fin |-> 0, bound |-> << >>, pos |-> 0]
FreeConn == [proc |-> 0, closed |-> FALSE, leaky |-> FALSE]
StmtSlots == 1 .. MaxStmts
ConnSlots == 1 .. MaxConns
Least(S) == CHOOSE x \in S : \A y \in S : x <= y

\* What the engine knows of statement h, or of connection c, at this moment.
StmtState(s, h) ==
    IF h = 0 THEN "null"
    ELSE IF s.stmts[h].fin > 0 THEN "finalized"
    ELSE IF s.stmts[h].conn = 0 \/ s.conns[s.stmts[h].conn].closed
         THEN "conn_closed"
    ELSE "live"
StmtProc(s, h) == IF h = 0 THEN 0 ELSE s.stmts[h].proc
ConnState(s, c) ==
    IF c = 0 THEN "null" ELSE IF s.conns[c].closed THEN "closed" ELSE "live"
ConnProc(s, c) == IF c = 0 THEN 0 ELSE s.conns[c].proc

\* Trace events: <<what, handle, creating process, state of the handle>>; a
\* query event holds the new statement, the process and the text prepared.
Log(s, e, a)     == [s EXCEPT !.log = Append(@, <<e, 0, 0, a>>)]
LogStmt(s, e, h) ==
    [s EXCEPT !.log = Append(@, <<e, h, StmtProc(s, h), StmtState(s, h)>>)]
LogConn(s, e, c) ==
    [s EXCEPT !.log = Append(@, <<e, c, ConnProc(s, c), ConnState(s, c)>>)]

\* A read or call through a null vector pointer.
Crash(s, what) == [Log(s, "null_deref", what) EXCEPT !.crashed = TRUE]

\* sqlite3_prepare_v2(gravity_db, sql, -1, &stmt, NULL) succeeding: field new
\* is the new handle.  oom marks a run that needs more slots than the model
\* has.
Prepared(s, sql, groups) ==
    LET free == {h \in StmtSlots : s.stmts[h].sql = "free"}
        h    == Least(free)
    IN IF free = {} THEN [s EXCEPT !.oom = TRUE, !.new = 0]
       ELSE [LogConn([s EXCEPT !.log = Append(@, <<"query", h, s.pid, sql>>)],
                     "prepare", s.gravity_db)
                EXCEPT !.stmts[h] = [conn |-> s.gravity_db, sql |-> sql,
                                     groups |-> groups, proc |-> s.pid,
                                     fin |-> 0, bound |-> << >>, pos |-> 0],
                       !.new = h]

\* sqlite3_open_v2(path, &gravity_db, SQLITE_OPEN_READONLY, NULL): a handle is
\* stored also when the call fails.
sqlite3_open_v2(s, ok) ==
    LET free == {c \in ConnSlots : s.conns[c].proc = 0}
        c    == Least(free)
    IN IF free = {} THEN [s EXCEPT !.oom = TRUE, !.gravity_db = 0]
       ELSE [s EXCEPT !.conns[c] = [proc |-> s.pid, closed |-> ~ok,
                                    leaky |-> FALSE],
                      !.gravity_db = c]

\* sqlite3_finalize(h): a no-op on NULL.
sqlite3_finalize(s, h) ==
    IF h = 0 THEN s
    ELSE [LogStmt(s, "finalize", h)
             EXCEPT !.stmts[h].fin = IF @ < 2 THEN @ + 1 ELSE @]

\* sqlite3_close(db): the connection stays open while statements prepared
\* on it are not finalized.
sqlite3_close(s, c) ==
    IF c = 0 THEN s
    ELSE IF s.conns[c].leaky
            \/ \E h \in StmtSlots : /\ s.stmts[h].sql # "free"
                                     /\ s.stmts[h].conn = c
                                     /\ s.stmts[h].fin = 0
         THEN LogConn(s, "close_busy", c)
         ELSE [LogConn(s, "close_conn", c) EXCEPT !.conns[c].closed = TRUE]

\* The handles the program still refers to.
VecRefs(v) == IF v = NullVec THEN {} ELSE {v[c] : c \in DOMAIN v}
StmtRefs(s) ==
    ({s.auditlist_stmt, s.table_stmt} \cup VecRefs(s.whitelist_stmt)
       \cup VecRefs(s.gravity_stmt) \cup VecRefs(s.blacklist_stmt)) \ {0}
ConnRefs(s) ==
    ({s.gravity_db} \cup {s.stmts[h].conn : h \in StmtRefs(s)}) \ {0}
\* The connections on which a statement is lost: prepared, not finalized and
\* no longer referred to.
Leaked(s) ==
    {s.stmts[h].conn : h \in {x \in StmtSlots \ StmtRefs(s) :
                                  s.stmts[x].sql # "free" /\ s.stmts[x].fin = 0}}

\* ------------------------------------------------- close, open, check_fork
\* gravityDB_finalize_client_statements(clientID): each vector is read
\* through its pointer, so a null vector aborts the process.
FinalizeOne(s, vec, clientID) ==
    IF s.crashed THEN s
    ELSE IF s[vec] = NullVec THEN Crash(s, vec)
    ELSE IF s[vec][clientID] # 0
         THEN [sqlite3_finalize(s, s[vec][clientID])
                  EXCEPT ![vec] = [@ EXCEPT ![clientID] = 0]]
         ELSE s

gravityDB_finalize_client_statements(s, clientID) ==
    FinalizeOne(FinalizeOne(FinalizeOne(s, "whitelist_stmt", clientID),
                            "blacklist_stmt", clientID),
                "gravity_stmt", clientID)

\* for(clientID = 0; clientID < counters->clients; clientID++)
RECURSIVE FinalizeFrom(_, _)
FinalizeFrom(s, clientID) ==
    IF s.crashed \/ clientID >= NumClients THEN s
    ELSE FinalizeFrom(gravityDB_finalize_client_statements(s, clientID),
                      clientID + 1)

\* gravityDB_close with the per-client statements forgotten: neither
\* finalized nor dropped.
gravityDB_close_keep(s) ==
    IF ~s.gravityDB_opened THEN s
    ELSE LET s3 == [sqlite3_finalize(s, s.auditlist_stmt)
                       EXCEPT !.auditlist_stmt = 0]
             s4 == sqlite3_close(s3, s3.gravity_db)
         IN [s4 EXCEPT !.gravity_db = 0, !.gravityDB_opened = FALSE]

gravityDB_close(s) ==
    IF ~s.gravityDB_opened THEN s
    ELSE With(FinalizeFrom(s, 0), LAMBDA s1 :
         IF s1.crashed THEN s1
         ELSE LET s2 == [s1 EXCEPT !.whitelist_stmt = NullVec,
                                   !.blacklist_stmt = NullVec,
                                   !.gravity_stmt = NullVec]
                  s3 == [sqlite3_finalize(s2, s2.auditlist_stmt)
                            EXCEPT !.auditlist_stmt = 0]
                  s4 == sqlite3_close(s3, s3.gravity_db)
              IN [s4 EXCEPT !.gravity_db = 0, !.gravityDB_opened = FALSE])

\* new_sqlite3_stmt_vec(counters->clients): a vector of null handles.
new_sqlite3_stmt_vec == [c \in Clients |-> 0]

\* gravityDB_open() from the native open on (lines 99 to 183).  Fallible
\* calls, in order: sqlite3_open_v2, sqlite3_exec(PRAGMA),
\* sqlite3_prepare_v2(audit query).  A failing sqlite3_open_v2 still stores a
\* connection handle.
OpenNew(s1) ==
    LET o0 == sqlite3_open_v2(Tick(s1), ~Fails(s1))
        o  == LogConn(o0, "native_open", o0.gravity_db)
    IN
    IF o.oom THEN o ELSE
    IF Fails(s1) THEN Ret(gravityDB_close(o), FALSE)
    ELSE
    LET o1 == [o EXCEPT !.gravityDB_opened = TRUE]
        p  == Tick(o1)
    IN
    IF Fails(o1) THEN Ret(gravityDB_close(p), FALSE)
    ELSE
    LET a == Tick(p) IN
    IF Fails(p)
    THEN Ret(gravityDB_close([a EXCEPT !.auditlist_stmt = 0]), FALSE)
    ELSE
    LET a1 == Prepared(a, "domain_audit", << >>)
        a2 == [a1 EXCEPT !.auditlist_stmt = a1.new]
        v  == [a2 EXCEPT
                 !.whitelist_stmt = IF @ = NullVec THEN new_sqlite3_stmt_vec ELSE @,
                 !.blacklist_stmt = IF @ = NullVec THEN new_sqlite3_stmt_vec ELSE @,
                 !.gravity_stmt   = IF @ = NullVec THEN new_sqlite3_stmt_vec ELSE @]
    IN Ret(v, TRUE)

\* gravityDB_open().  The first fallible call is stat; the others are those
\* of OpenNew.
gravityDB_open(s) ==
    LET s1 == Tick(s) IN
    IF Fails(s) THEN Ret(s1, FALSE)
    ELSE IF s1.gravityDB_opened /\ s1.gravity_db # 0 THEN Ret(s1, TRUE)
    ELSE OpenNew(s1)

\* gravityDB_check_fork()
gravityDB_check_fork(s) ==
    LET l  == Log(s, "check_fork", "")
        s1 == IF l.main_process = 0
              THEN [l EXCEPT !.main_process = l.pid, !.this_process = l.pid]
              ELSE l
    IN
    IF s1.this_process = s1.pid THEN s1
    ELSE LET s2 == [s1 EXCEPT !.this_process = s1.pid,
                              !.gravityDB_opened = FALSE,
                              !.gravity_db = 0,
                              !.whitelist_stmt = NullVec,
                              !.blacklist_stmt = NullVec,
                              !.gravity_stmt = NullVec]
         IN IF s2.crashed THEN s2 ELSE gravityDB_open(s2)

\* ----------------------------------------------------- group resolution
\* gravityDB_finalizeTable()
gravityDB_finalizeTable(s) ==
    IF ~s.gravityDB_opened THEN s
    ELSE [sqlite3_finalize(s, s.table_stmt) EXCEPT !.table_stmt = 0]

\* sqlite3_step(table_stmt) returning a row
StepTable(s) == LogStmt(s, "step", s.table_stmt)

\* *groups when strdup returned NULL: asprintf prints the pointer as
\* "(null)", and the list "IN ((null))" of the one SQL value NULL holds no
\* group_id.
NullGroups == <<-1>>

\* The counting query of get_client_groupids (SELECT COUNT(*) FROM client
\* WHERE subnet_match ...): asprintf, prepare, step, finalize.  ret tells
\* whether the query was answered.  A failing asprintf returns before
\* table_stmt is written.
CountQuery(o) ==
    LET a == Tick(o) IN
    IF Fails(o) THEN Ret(Log(a, "asprintf_error", "1"), FALSE)
    ELSE
    LET p1 == Tick(a) IN
    IF Fails(a) THEN Ret([p1 EXCEPT !.table_stmt = 0], FALSE)
    ELSE
    LET q1 == Prepared(p1, "client_count", << >>)
        q2 == [q1 EXCEPT !.table_stmt = q1.new]
        t1 == StepTable(Tick(q2))
    IN
    IF Fails(q2) THEN Ret(gravityDB_finalizeTable(t1), FALSE)
    ELSE Ret(gravityDB_finalizeTable(t1), TRUE)

\* The group-association query answering "0" where there is no group.
GroupQuery_default_group(f1, clientID) ==
    LET a2 == Tick(f1) IN
    IF Fails(f1) THEN Ret(Log(a2, "asprintf_error", "2"), FALSE)
    ELSE
    LET p2 == Tick(a2) IN
    IF Fails(a2)
    THEN Ret(sqlite3_finalize([p2 EXCEPT !.table_stmt = 0], 0), FALSE)
    ELSE
    LET q3 == Prepared(p2, "client_by_group", << >>)
        q4 == [q3 EXCEPT !.table_stmt = q3.new]
        t2 == StepTable(Tick(q4))
    IN
    IF Fails(q4) THEN Ret(gravityDB_finalizeTable(t2), FALSE)
    ELSE
    LET f2 == Tick(gravityDB_finalizeTable(t2)) IN
    Ret([f2 EXCEPT !.groups = IF Fails(t2) THEN NullGroups
                              ELSE IF ClientByGroup(clientID) = << >>
                                   THEN <<0>>
                                   ELSE ClientByGroup(clientID)], TRUE)

\* The group-association query of get_client_groupids (SELECT
\* GROUP_CONCAT(group_id) FROM client_by_group ...): asprintf, prepare, step,
\* strdup of the result, a NULL result being "".  When strdup returns NULL
\* the function still returns true, with *groups NULL.
GroupQuery(f1, clientID) ==
    LET a2 == Tick(f1) IN
    IF Fails(f1) THEN Ret(Log(a2, "asprintf_error", "2"), FALSE)
    ELSE
    LET p2 == Tick(a2) IN
    IF Fails(a2)
    THEN Ret(sqlite3_finalize([p2 EXCEPT !.table_stmt = 0], 0), FALSE)
    ELSE
    LET q3 == Prepared(p2, "client_by_group", << >>)
        q4 == [q3 EXCEPT !.table_stmt = q3.new]
        t2 == StepTable(Tick(q4))
    IN
    IF Fails(q4) THEN Ret(gravityDB_finalizeTable(t2), FALSE)
    ELSE
    LET f2 == Tick(gravityDB_finalizeTable(t2)) IN
    Ret([f2 EXCEPT !.groups = IF Fails(t2) THEN NullGroups
                              ELSE ClientByGroup(clientID)], TRUE)

\* get_client_groupids(client, &groups): ret is the return value, groups the
\* out-parameter ("0" is <<0>>, "" is << >>, NULL is NullGroups).  Fallible
\* calls, in order: those of gravityDB_open when the store is closed, then
\* asprintf, prepare and step of the counting query, strdup("0") for a client
\* without record, then asprintf, prepare, step and strdup of the group
\* query.  When strdup("0") returns NULL, *groups is still NULL at the test
\* "*groups != NULL" and the group query runs.
get_client_groupids(s, clientID) ==
    With(IF ~s.gravityDB_opened THEN gravityDB_open(s) ELSE Ret(s, TRUE),
         LAMBDA o :
    IF o.crashed THEN o
    ELSE IF ~o.gravityDB_opened /\ ~o.ret THEN Ret(o, FALSE)
    ELSE
    With(CountQuery(o), LAMBDA f1 :
    IF f1.crashed \/ ~f1.ret THEN f1
    ELSE IF ClientRecords(clientID) = 0
    THEN IF Fails(f1) THEN GroupQuery(Tick(f1), clientID)
         ELSE Ret([Tick(f1) EXCEPT !.groups = <<0>>], TRUE)
    ELSE GroupQuery(f1, clientID)))

\* ------------------------------------------------ per-client statements
\* One of the three blocks of gravityDB_prepare_client_statements: prepare
\* the query of get_client_querystr(table, groups) and store the handle in
\* the vector vec at clientID; a failing prepare closes the store.
PrepareInto(s, vec, table, clientID) ==
    IF s.crashed \/ ~s.ret THEN s
    ELSE
    LET p == Tick(s) IN
    IF Fails(s)
    THEN Ret(gravityDB_close(Log(p, "sql_error_prepare", table)), FALSE)
    ELSE
    LET q == Prepared(p, table, p.groups) IN
    IF q[vec] = NullVec THEN Crash(q, vec)
    ELSE Ret([q EXCEPT ![vec] = [@ EXCEPT ![clientID] = q.new]], TRUE)

gravityDB_prepare_client_statements(s, clientID) ==
    With(IF ~s.gravityDB_opened THEN gravityDB_open(s) ELSE Ret(s, TRUE),
         LAMBDA o :
    IF o.crashed THEN o
    ELSE IF ~o.gravityDB_opened /\ ~o.ret THEN Ret(o, FALSE)
    ELSE
    With(get_client_groupids(o, clientID), LAMBDA g :
    IF g.crashed \/ ~g.ret THEN g
    ELSE PrepareInto(PrepareInto(PrepareInto(g,
             "whitelist_stmt", "vw_whitelist", clientID),
             "gravity_stmt",   "vw_gravity",   clientID),
             "blacklist_stmt", "vw_blacklist", clientID)))

\* ----------------------------------------------------------------- lookups
Range(q) == {q[i] : i \in 1 .. Len(q)}

\* substr(X, Y) of SQLite without a length: from character Y on; a negative Y
\* counts from the right, and a start left of the string is the whole string.
substr(x, y) ==
    LET from == IF y > 0 THEN y
                ELSE IF y = 0 THEN 1
                ELSE IF Len(x) + y + 1 >= 1 THEN Len(x) + y + 1 ELSE 1
    IN IF from > Len(x) THEN << >> ELSE SubSeq(x, from, Len(x))

\* The audit query of gravityDB_open with :input bound to input.
AuditQuery(input) ==
    \E domain \in domain_audit :
        LET matcher == IF domain # << >> /\ domain[1] = "*"
                       THEN <<"*">> \o substr(input, 1 - Len(domain))
                       ELSE input
        IN matcher = domain

\* The value of SELECT EXISTS(...) of statement h with its bound parameter.
Exists(s, h) ==
    LET st == s.stmts[h] IN
    IF st.sql = "domain_audit" THEN AuditQuery(st.bound)
    ELSE \E row \in ViewRows(st.sql) :
             row[1] = st.bound /\ row[2] \in Range(st.groups)

\* sqlite3_reset(stmt); sqlite3_clear_bindings(stmt);
ResetClear(s, h) ==
    [LogStmt(LogStmt(s, "reset", h), "clear_bindings", h)
        EXCEPT !.stmts[h].bound = << >>]

\* A return of domain_in_list, recorded in the trace.
Returns(s, v) ==
    Ret(Log(s, "domain_in_list", IF v THEN "TRUE" ELSE "FALSE"), v)

\* domain_in_list(domain, stmt, listname).  Fallible calls, in order: those
\* of gravityDB_open when the store is closed, sqlite3_bind_text,
\* sqlite3_step (SQLITE_BUSY or another code that is not SQLITE_ROW: both
\* branches reset, clear and return false).  Binding a null statement fails.
domain_in_list(s, domain, h) ==
    With(IF ~s.gravityDB_opened THEN gravityDB_open(s) ELSE Ret(s, TRUE),
         LAMBDA o :
    IF o.crashed THEN o
    ELSE IF ~o.gravityDB_opened /\ ~o.ret THEN Returns(o, FALSE)
    ELSE
    LET b == LogStmt(Tick(o), "bind", h) IN
    IF Fails(o) \/ h = 0 THEN Returns(b, FALSE)
    ELSE
    LET b1 == [b EXCEPT !.stmts[h].bound = domain]
        st == LogStmt(Tick(b1), "step", h)
    IN
    IF Fails(b1)
    THEN Returns(ResetClear(Log(st, "step_failed", ""), h), FALSE)
    ELSE Returns(ResetClear(st, h), Exists(st, h)))

\* match_regex(domain, clientID, REGEX_WHITELIST) != -1, with the result rx of
\* the regex subsystem.
match_regex(s, rx) ==
    Ret(Log(s, "match_regex", IF rx # -1 THEN "hit" ELSE "miss"), rx # -1)

\* The common head of in_whitelist, in_gravity and in_blacklist: the fork
\* check, the read of the client's handle from vec, the preparation when it
\* is null and the second read, from again.  ret is FALSE when the function
\* returns early; otherwise stmt is the handle the lookup will use.
GetClientStmt(s, clientID, vec, again) ==
    With(gravityDB_check_fork(s), LAMBDA f :
    IF f.crashed THEN f
    ELSE IF f[vec] = NullVec THEN Crash(f, vec)
    ELSE
    With(IF f[vec][clientID] = 0
         THEN gravityDB_prepare_client_statements(f, clientID)
         ELSE Ret(f, TRUE),
         LAMBDA p :
    LET stmt == f[vec][clientID] IN
    IF p.crashed THEN p
    ELSE IF ~p.ret THEN Ret(p, FALSE)
    ELSE IF stmt # 0 THEN Ret([p EXCEPT !.stmt = stmt], TRUE)
    ELSE IF p[again] = NullVec THEN Crash(p, again)
    ELSE Ret([p EXCEPT !.stmt = p[again][clientID]], TRUE)))

\* in_whitelist with | in place of ||: the regex check runs in any case.
in_whitelist_eager(s, domain, clientID, rx) ==
    With(GetClientStmt(s, clientID, "whitelist_stmt", "whitelist_stmt"),
         LAMBDA g :
    IF g.crashed \/ ~g.ret THEN g
    ELSE With(domain_in_list(g, domain, g.stmt), LAMBDA d :
         IF d.crashed THEN d
         ELSE Ret(match_regex(d, rx), d.ret \/ rx # -1)))

in_whitelist(s, domain, clientID, rx) ==
    With(GetClientStmt(s, clientID, "whitelist_stmt", "whitelist_stmt"),
         LAMBDA g :
    IF g.crashed \/ ~g.ret THEN g
    ELSE With(domain_in_list(g, domain, g.stmt), LAMBDA d :
         IF d.crashed \/ d.ret THEN d ELSE match_regex(d, rx)))

in_gravity(s, domain, clientID) ==
    With(GetClientStmt(s, clientID, "gravity_stmt", "whitelist_stmt"),
         LAMBDA g :
    IF g.crashed \/ ~g.ret THEN g ELSE domain_in_list(g, domain, g.stmt))

in_blacklist(s, domain, clientID) ==
    With(GetClientStmt(s, clientID, "blacklist_stmt", "whitelist_stmt"),
         LAMBDA g :
    IF g.crashed \/ ~g.ret THEN g ELSE domain_in_list(g, domain, g.stmt))

in_auditlist(s, domain) ==
    With(gravityDB_check_fork(s), LAMBDA f :
    IF f.crashed THEN f
    ELSE IF f.auditlist_stmt = 0 THEN Ret(f, FALSE)
    ELSE domain_in_list(f, domain, f.auditlist_stmt))

\* -------------------------------------------------- bulk listing and count
\* The rows of "SELECT domain, id FROM <view> GROUP BY id", in id order.
RECURSIVE RowsById(_, _)
RowsById(rows, from) ==
    IF \A r \in rows : r[3] < from THEN << >>
    ELSE IF \E r \in rows : r[3] = from
         THEN <<(CHOOSE r \in rows : r[3] = from)>> \o RowsById(rows, from + 1)
         ELSE RowsById(rows, from + 1)
TableRows(table) == RowsById(ViewRows(table), 0)

\* gravityDB_getTable(list).  Fallible calls, in order: those of
\* gravityDB_open when reached, asprintf, sqlite3_prepare_v2.
gravityDB_getTable(s, list) ==
    With(gravityDB_check_fork(s), LAMBDA f :
    IF f.crashed THEN f ELSE
    With(IF ~f.gravityDB_opened THEN gravityDB_open(f) ELSE Ret(f, TRUE),
         LAMBDA o :
    IF o.crashed THEN o
    ELSE IF ~o.gravityDB_opened /\ ~o.ret THEN Ret(o, FALSE)
    ELSE IF list >= UNKNOWN_TABLE THEN Ret(o, FALSE)
    ELSE
    LET a == Tick(o) IN
    IF Fails(o) THEN Ret(a, FALSE)
    ELSE
    LET p == Tick(a) IN
    IF Fails(a) THEN Ret(gravityDB_close([p EXCEPT !.table_stmt = 0]), FALSE)
    ELSE LET q == Prepared(p, tablename(list), << >>) IN
         Ret([q EXCEPT !.table_stmt = q.new], TRUE)))

\* gravityDB_getDomain(&rowid): ret is <<domain, rowid>>, the domain being
\* null when rowid is -1.  Stepping a null statement is refused by the engine;
\* a statement that returned its last row, or whose step failed, starts over
\* at the first row on the next step (the function neither resets nor
\* finalizes it).
gravityDB_getDomain(s) ==
    LET h  == s.table_stmt
        st == LogStmt(Tick(s), "step", h)
    IN
    IF h = 0 THEN Ret(st, <<"NULL", -1>>)
    ELSE IF Fails(s) THEN Ret([st EXCEPT !.stmts[h].pos = 0], <<"NULL", -1>>)
    ELSE LET rows == TableRows(st.stmts[h].sql)
             pos  == st.stmts[h].pos
         IN IF pos < Len(rows)
            THEN Ret([st EXCEPT !.stmts[h].pos = pos + 1],
                     <<rows[pos + 1][1], rows[pos + 1][3]>>)
            ELSE Ret([st EXCEPT !.stmts[h].pos = 0], <<"NULL", -1>>)

\* The value of property gravity_count in table info.
gravity_count == 7
CountDistinct(table) == Cardinality({r[1] : r \in ViewRows(table)})

\* The query string gravityDB_count builds for a known list.
CountQueryStr_live(list) == "count_distinct_" \o tablename(list)
CountQueryStr(list) ==
    IF list = GRAVITY_TABLE THEN "info_gravity_count"
    ELSE "count_distinct_" \o tablename(list)

\* sqlite3_column_int(table_stmt, 0) of the count statement h.
CountResult(s, h, list) ==
    IF s.stmts[h].sql = "info_gravity_count" THEN gravity_count
    ELSE CountDistinct(tablename(list))

\* gravityDB_count(list).  Fallible calls, in order: those of gravityDB_open
\* when the store is closed, asprintf, sqlite3_prepare_v2, sqlite3_step.
gravityDB_count(s, list) ==
    With(IF ~s.gravityDB_opened THEN gravityDB_open(s) ELSE Ret(s, TRUE),
         LAMBDA o :
    IF o.crashed THEN o
    ELSE IF ~o.gravityDB_opened /\ ~o.ret THEN Ret(o, DB_FAILED)
    ELSE IF list >= UNKNOWN_TABLE THEN Ret(Log(o, "unknown_list", ""), 0)
    ELSE
    LET a == Tick(o) IN
    IF Fails(o) THEN Ret(Log(a, "asprintf_error", ""), 0)
    ELSE
    LET p == Tick(a) IN
    IF Fails(a)
    THEN Ret(gravityDB_close(gravityDB_finalizeTable(
                 [Log(p, "sql_error_prepare", CountQueryStr(list))
                     EXCEPT !.table_stmt = 0])), DB_FAILED)
    ELSE
    LET q  == Prepared(p, CountQueryStr(list), << >>)
        q1 == [q EXCEPT !.table_stmt = q.new]
        t1 == LogStmt(Tick(q1), "step", q1.table_stmt)
    IN
    IF Fails(q1)
    THEN Ret(gravityDB_close(gravityDB_finalizeTable(
                 Log(t1, "sql_error_step", CountQueryStr(list)))), DB_FAILED)
    ELSE Ret(gravityDB_finalizeTable(t1),
             CountResult(q1, q1.table_stmt, list)))

\* ----------------------------------------------------------- regex groups
\* counters->num_regex[REGEX_BLACKLIST]
NumRegexBlacklist == 1

\* The ids "SELECT id from <table> WHERE group_id IN (<groups>)" returns.
RegexRows(table, groups) ==
    LET rows == TableRows(table)
        keep == {i \in 1 .. Len(rows) : rows[i][2] \in Range(groups)}
        F[i \in 0 .. Len(rows)] ==
            IF i = 0 THEN << >>
            ELSE IF i \in keep THEN Append(F[i - 1], rows[i][3]) ELSE F[i - 1]
    IN F[Len(rows)]

\* The loop body without the shift of the whitelist type.
EnableRegex_no_offset(s, clientID, regexid, type, result) ==
    LET hits == {i \in 1 .. Len(regexid) : regexid[i] = result} IN
    IF hits = {} THEN s
    ELSE [s EXCEPT !.per_client_regex[clientID] = @ \cup {Least(hits) - 1}]

\* The body of the while loop of gravityDB_get_regex_client_groups for one
\* row: the first candidate equal to result gets its bit set.
EnableRegex(s, clientID, regexid, type, result) ==
    LET hits == {i \in 1 .. Len(regexid) : regexid[i] = result} IN
    IF hits = {} THEN s
    ELSE LET regexID == Least(hits) - 1
             bit     == IF type = "REGEX_WHITELIST"
                        THEN regexID + NumRegexBlacklist ELSE regexID
         IN [s EXCEPT !.per_client_regex[clientID] = @ \cup {bit}]

\* while((rc = sqlite3_step(query_stmt)) == SQLITE_ROW): each step is a
\* fallible call; a step that fails, or that finds no further row, ends the
\* loop.  A row returned is recorded in the trace with its id.
RECURSIVE EnableAll(_, _, _, _, _, _)
EnableAll(s, h, clientID, regexid, type, results) ==
    LET st == LogStmt(Tick(s), "step", h) IN
    IF Fails(s) \/ results = << >> THEN st
    ELSE EnableAll(EnableRegex([st EXCEPT !.log =
                                   Append(@, <<"row", Head(results), 0, "">>)],
                               clientID, regexid, type, Head(results)),
                   h, clientID, regexid, type, Tail(results))

\* gravityDB_get_regex_client_groups(client, numregex, regexid, type, table,
\* clientID).  Fallible calls, in order: those of gravityDB_check_fork and
\* get_client_groupids, then asprintf, sqlite3_prepare_v2 and each
\* sqlite3_step.
gravityDB_get_regex_client_groups(s, clientID, regexid, type, table) ==
    With(gravityDB_check_fork(s), LAMBDA f :
    IF f.crashed THEN f ELSE
    With(get_client_groupids(f, clientID), LAMBDA g :
    IF g.crashed \/ ~g.ret THEN Ret(g, FALSE)
    ELSE
    LET a == Tick(g) IN
    IF Fails(g) THEN Ret(Log(a, "asprintf_error", table), FALSE)
    ELSE
    LET p == Tick(a) IN
    IF Fails(a)
    THEN Ret(gravityDB_close(Log(p, "sql_error_prepare", table)), FALSE)
    ELSE
    With(Prepared(p, table, g.groups), LAMBDA q :
    IF q.oom THEN q
    ELSE Ret(sqlite3_finalize(
                 EnableAll(q, q.new, clientID, regexid, type,
                           RegexRows(table, g.groups)),
                 q.new), TRUE))))

\* ------------------------------------------------------------------ actions
\* The file-level variables and the engine tables as a public call finds them.
Pre ==
    [pid |-> pid, main_process |-> main_process, this_process |-> this_process,
     gravityDB_opened |-> gravityDB_opened, gravity_db |-> gravity_db,
     whitelist_stmt |-> whitelist_stmt, gravity_stmt |-> gravity_stmt,
     blacklist_stmt |-> blacklist_stmt, table_stmt |-> table_stmt,
     auditlist_stmt |-> auditlist_stmt, per_client_regex |-> per_client_regex,
     stmts |-> stmts, conns |-> conns]

\* No public call is running.
Idle == [op |-> "idle"]

\* The state after a public call that ran from Cur(F) to r.
Done(r, q) ==
    /\ ~r.oom
    /\ pid' = r.pid
    /\ main_process' = r.main_process
    /\ this_process' = r.this_process
    /\ gravityDB_opened' = r.gravityDB_opened
    /\ gravity_db' = r.gravity_db
    /\ whitelist_stmt' = r.whitelist_stmt
    /\ gravity_stmt' = r.gravity_stmt
    /\ blacklist_stmt' = r.blacklist_stmt
    /\ table_stmt' = r.table_stmt
    /\ auditlist_stmt' = r.auditlist_stmt
    /\ per_client_regex' = r.per_client_regex
    /\ stmts' = [h \in StmtSlots |->
                   IF h \in StmtRefs(r) THEN r.stmts[h] ELSE FreeStmt]
    /\ conns' = [c \in ConnSlots |->
                   IF c \notin ConnRefs(r) THEN FreeConn
                   ELSE IF c \in Leaked(r) THEN [r.conns[c] EXCEPT !.leaky = TRUE]
                   ELSE r.conns[c]]
    /\ crashed' = r.crashed
    /\ call' = [op |-> q.op, clientID |-> q.clientID, domain |-> q.domain,
                rx |-> q.rx, list |-> q.list, regexid |-> q.regexid,
                type |-> q.type, faults |-> r.faults, ret |-> r.ret,
                log |-> r.log, pre |-> Pre]
    /\ UNCHANGED <<client_table, domain_audit, blocked_IP_v4, blocked_IP_v6>>

InitStore ==
    /\ pid = 1
    /\ main_process = 0
    /\ this_process = 0
    /\ gravityDB_opened = FALSE
    /\ gravity_db = 0
    /\ whitelist_stmt = NullVec
    /\ gravity_stmt = NullVec
    /\ blacklist_stmt = NullVec
    /\ table_stmt = 0
    /\ auditlist_stmt = 0
    /\ per_client_regex = [c \in Clients |-> {}]
    /\ stmts = [h \in StmtSlots |-> FreeStmt]
    /\ conns = [c \in ConnSlots |-> FreeConn]
    /\ crashed = FALSE
    /\ call = Idle

\* char** blocked_IP_v4 = NULL; char** blocked_IP_v6 = NULL;
InitRegistry ==
    /\ blocked_IP_v4 = NullList
    /\ blocked_IP_v6 = NullList

\* The audited pattern of the database files of Init and InitNoGroups.
AuditPattern == <<"*", ".", "g">>

\* The database file holds a client without a record and clients with one.
Init ==
    /\ InitStore
    /\ InitRegistry
    /\ client_table = ClientTable(0)
    /\ domain_audit = {AuditPattern}

\* The database file in which a client has a record without any group.
InitNoGroups ==
    /\ InitStore
    /\ InitRegistry
    /\ client_table = ClientTable(1)
    /\ domain_audit = {AuditPattern}

\* Domain names and patterns of up to MaxAuditLen characters.
AuditStrings ==
    UNION {[1 .. n -> {"*", ".", "g"}] : n \in 0 .. MaxAuditLen}

\* A database file whose table domain_audit holds any one pattern.
InitAudit ==
    /\ InitStore
    /\ InitRegistry
    /\ client_table = ClientTable(0)
    /\ \E pattern \in AuditStrings : domain_audit = {pattern}

\* fork(): the model moves on to the child, which inherits the memory image.
Fork ==
    /\ ~crashed
    /\ call = Idle
    /\ pid < MaxPid
    /\ pid' = pid + 1
    /\ UNCHANGED <<main_process, this_process, gravityDB_opened, gravity_db,
                   whitelist_stmt, gravity_stmt, blacklist_stmt, table_stmt,
                   auditlist_stmt, per_client_regex, stmts, conns, crashed, call,
                   client_table, domain_audit, blocked_IP_v4, blocked_IP_v6>>

\* A public call: the function called and its arguments.
Req(op, clientID, domain, rx) ==
    [op |-> op, clientID |-> clientID, domain |-> domain, rx |-> rx,
     list |-> 0, regexid |-> << >>, type |-> ""]

\* The runs of a call that differ in the library calls that fail: each
\* failing call is one the run reaches when the earlier ones of the set fail.
\* R[F] is the state record after the run in which the calls F fail.
RECURSIVE FaultPlans(_, _, _, _)
FaultPlans(R, F, last, n) ==
    LET r == R[F] IN
    {r} \cup
    IF n = 0 THEN {}
    ELSE LET hi == IF r.k < MaxFaultPoint THEN r.k ELSE MaxFaultPoint
         IN UNION {FaultPlans(R, F \cup {i}, i, n - 1) : i \in (last + 1) .. hi}

\* No call is running and the process has not aborted.
Ready == ~crashed /\ call = Idle

\* The public call q: function Op runs from the current state with some
\* fallible library calls failing.
Call(q, Op(_)) ==
    \E r \in FaultPlans([F \in SUBSET (1 .. MaxFaultPoint) |-> Op(Cur(F))],
                        {}, 0, MaxFaults) :
        Done(r, q)

Open ==
    /\ Ready
    /\ Call(Req("open", 0, << >>, -1), gravityDB_open)

Close ==
    /\ Ready
    /\ Call(Req("close", 0, << >>, -1),
            LAMBDA s : Ret(gravityDB_close(s), FALSE))

PrepareClientStatements ==
    \E c \in Clients :
        /\ Ready
        /\ Call(Req("prepare_client_statements", c, << >>, -1),
                LAMBDA s : gravityDB_prepare_client_statements(s, c))

\* rx is what the regex subsystem answers for this domain and client.
InWhitelist ==
    \E c \in Clients, d \in Domains, rx \in {-1, 0} :
        /\ Ready
        /\ Call(Req("in_whitelist", c, d, rx),
                LAMBDA s : in_whitelist(s, d, c, rx))

InGravity ==
    \E c \in Clients, d \in Domains :
        /\ Ready
        /\ Call(Req("in_gravity", c, d, -1), LAMBDA s : in_gravity(s, d, c))

InBlacklist ==
    \E c \in Clients, d \in Domains :
        /\ Ready
        /\ Call(Req("in_blacklist", c, d, -1), LAMBDA s : in_blacklist(s, d, c))

InAuditlist ==
    \E d \in Domains :
        /\ Ready
        /\ Call(Req("in_auditlist", 0, d, -1), LAMBDA s : in_auditlist(s, d))

\* ------------------------------------------ externally blocked addresses
\* inet_pton(AF_INET, addr, ..) and inet_pton(AF_INET6, addr, ..) return 1 for
\* these texts and 0 for the others of Addresses.
BlockPagesIPv4 ==
    {"146.112.61.104", "146.112.61.105", "146.112.61.106", "146.112.61.107",
     "146.112.61.108", "146.112.61.109", "146.112.61.110"}
BlockPagesIPv6 ==
    {"::ffff:146.112.61.104", "::ffff:146.112.61.105", "::ffff:146.112.61.106",
     "::ffff:146.112.61.107", "::ffff:146.112.61.108", "::ffff:146.112.61.109",
     "::ffff:146.112.61.110"}
ValidIPv4 == {"0.0.0.0", "1.2.3.4"} \cup BlockPagesIPv4
ValidIPv6 == {"::", "::1"} \cup BlockPagesIPv6
inet_pton(af, addr) ==
    IF \/ af = "AF_INET"  /\ addr \in ValidIPv4
       \/ af = "AF_INET6" /\ addr \in ValidIPv6
    THEN 1 ELSE 0

\* The addresses callers pass, and the values of the parameter type.
Addresses == {"1.2.3.4", "0.0.0.0", "::1", "::", "1.2.3", ""}
Types     == {4, 5, 6}
\* The addresses passed to add_blocked_IP after start-up.
AddedAddresses == {"1.2.3.4", "::1", "1.2.3"}

\* calloc(maxIPs, sizeof(char*))
EmptyList == [i \in 1 .. maxIPs |-> NullAddr]

\* The loop of add_blocked_IP that stores at the last slot of a full list.
StoreAddr_overwrite(b, list, addr, copied) ==
    LET free == {i \in 1 .. maxIPs : b[list][i] = NullAddr} IN
    IF b[list] = NullList THEN [b EXCEPT !.crashed = TRUE, !.ret = FALSE]
    ELSE IF free = {} THEN [b EXCEPT ![list][maxIPs] = addr, !.ret = TRUE]
    ELSE [b EXCEPT ![list][Least(free)] = IF copied THEN addr ELSE NullAddr,
                   !.ret = copied]

\* The loop of add_blocked_IP: the first null slot of the list gets
\* strdup(addr), which is null when the copy cannot be allocated.  A list
\* that calloc did not allocate is a null pointer, and reading list[0]
\* through it ends the process.
StoreAddr(b, list, addr, copied) ==
    LET free == {i \in 1 .. maxIPs : b[list][i] = NullAddr} IN
    IF b[list] = NullList THEN [b EXCEPT !.crashed = TRUE, !.ret = FALSE]
    ELSE IF free = {} THEN [b EXCEPT !.ret = FALSE]
    ELSE [b EXCEPT ![list][Least(free)] = IF copied THEN addr ELSE NullAddr,
                   !.ret = copied]

\* add_blocked_IP without the inet_pton tests.
add_blocked_IP_unchecked(b, addr, type, copied) ==
    CASE type = 4 -> StoreAddr(b, "blocked_IP_v4", addr, copied)
      [] type = 6 -> StoreAddr(b, "blocked_IP_v6", addr, copied)
      [] OTHER    -> [b EXCEPT !.ret = FALSE]

\* add_blocked_IP(addr, type); copied tells whether strdup succeeds.
add_blocked_IP(b, addr, type, copied) ==
    CASE type = 4 ->
            IF inet_pton("AF_INET", addr) # 1 THEN [b EXCEPT !.ret = FALSE]
            ELSE StoreAddr(b, "blocked_IP_v4", addr, copied)
      [] type = 6 ->
            IF inet_pton("AF_INET6", addr) # 1 THEN [b EXCEPT !.ret = FALSE]
            ELSE StoreAddr(b, "blocked_IP_v6", addr, copied)
      [] OTHER -> [b EXCEPT !.ret = FALSE]

\* The loop of is_blocked_IP: the entries up to the first null slot are
\* compared with addr.
ListHolds(list, addr) ==
    \E i \in 1 .. maxIPs :
        /\ list[i] = addr
        /\ \A j \in 1 .. i : list[j] # NullAddr

\* is_blocked_IP(addr, type): case 6 has no break and runs into default.
is_blocked_IP(b, addr, type) ==
    IF addr = NullAddr THEN FALSE
    ELSE CASE type = 4 -> ListHolds(b.blocked_IP_v4, addr)
           [] type = 6 -> LET list == b.blocked_IP_v6 IN FALSE
           [] OTHER    -> FALSE

\* The calls of add_blocked_IP that init_blocked_IP makes, in order.
Seeds ==
    <<<<"0.0.0.0", 4>>, <<"::", 6>>,
      <<"146.112.61.104", 4>>, <<"::ffff:146.112.61.104", 6>>,
      <<"146.112.61.105", 4>>, <<"::ffff:146.112.61.105", 6>>,
      <<"146.112.61.106", 4>>, <<"::ffff:146.112.61.106", 6>>,
      <<"146.112.61.107", 4>>, <<"::ffff:146.112.61.107", 6>>,
      <<"146.112.61.108", 4>>, <<"::ffff:146.112.61.108", 6>>,
      <<"146.112.61.109", 4>>, <<"::ffff:146.112.61.109", 6>>,
      <<"146.112.61.110", 4>>, <<"::ffff:146.112.61.110", 6>>>>

\* The sets of add_blocked_IP calls of init_blocked_IP whose strdup fails.
RECURSIVE SeedFaults(_)
SeedFaults(n) ==
    IF n = 0 THEN {{}}
    ELSE {F \cup G : F \in SeedFaults(n - 1),
                     G \in {{}} \cup {{i} : i \in 1 .. Len(Seeds)}}
InitFaultPlans == SeedFaults(MaxInitFaults)

\* init_blocked_IP(): calloc gives each list or a null pointer, then the
\* seeds are added in order and the results of the calls are dropped; the
\* strdup of the calls in failed returns null.  The function returns
\* nothing: ret tells whether every call it made returned true.
init_blocked_IP(b, alloc4, alloc6, failed) ==
    LET RECURSIVE AddFrom(_, _)
        AddFrom(r, n) ==
            IF n > Len(Seeds) \/ r.crashed THEN r
            ELSE With(add_blocked_IP(r, Seeds[n][1], Seeds[n][2],
                                     n \notin failed), LAMBDA a :
                   AddFrom([a EXCEPT !.ret = r.ret /\ a.ret], n + 1))
    IN AddFrom([b EXCEPT !.blocked_IP_v4 = IF alloc4 THEN EmptyList
                                           ELSE NullList,
                         !.blocked_IP_v6 = IF alloc6 THEN EmptyList
                                           ELSE NullList,
                         !.ret = TRUE], 1)

\* The registry as a record, and the state after a registry call.
Registry ==
    [blocked_IP_v4 |-> blocked_IP_v4, blocked_IP_v6 |-> blocked_IP_v6,
     ret |-> FALSE, crashed |-> FALSE]
RegistryDone(b, op, addr, type, ret) ==
    /\ blocked_IP_v4' = b.blocked_IP_v4
    /\ blocked_IP_v6' = b.blocked_IP_v6
    /\ crashed' = b.crashed
    /\ call' = [op |-> op, addr |-> addr, type |-> type, ret |-> ret,
                pre |-> [blocked_IP_v4 |-> blocked_IP_v4,
                         blocked_IP_v6 |-> blocked_IP_v6]]
    /\ UNCHANGED <<pid, main_process, this_process, gravityDB_opened,
                   gravity_db, whitelist_stmt, gravity_stmt, blacklist_stmt,
                   table_stmt, auditlist_stmt, per_client_regex, stmts, conns,
                   client_table, domain_audit>>

\* main() calls init_blocked_IP once, before anything uses the registry.
InitBlockedIP ==
    /\ Ready
    /\ blocked_IP_v4 = NullList
    /\ \E alloc4 \in BOOLEAN, alloc6 \in BOOLEAN, failed \in InitFaultPlans :
           With(init_blocked_IP(Registry, alloc4, alloc6, failed), LAMBDA b :
              RegistryDone(b, "init_blocked_IP", NullAddr, 0, b.ret))

AddBlockedIP ==
    /\ Ready
    /\ blocked_IP_v4 # NullList
    /\ \E addr \in AddedAddresses, type \in Types, copied \in BOOLEAN :
           With(add_blocked_IP(Registry, addr, type, copied), LAMBDA b :
              RegistryDone(b, "add_blocked_IP", addr, type, b.ret))

IsBlockedIP ==
    \E addr \in Addresses \cup {NullAddr}, type \in Types :
        /\ Ready
        /\ blocked_IP_v4 # NullList
        /\ RegistryDone(Registry, "is_blocked_IP", addr, type,
                        is_blocked_IP(Registry, addr, type))

\* in_auditlist for any domain name.
InAuditlistAny ==
    \E d \in AuditStrings :
        /\ Ready
        /\ Call(Req("in_auditlist", 0, d, -1), LAMBDA s : in_auditlist(s, d))

GetTable ==
    \E list \in 0 .. UNKNOWN_TABLE :
        /\ Ready
        /\ Call([Req("getTable", 0, << >>, -1) EXCEPT !.list = list],
                LAMBDA s : gravityDB_getTable(s, list))

GetDomain ==
    /\ Ready
    /\ Call(Req("getDomain", 0, << >>, -1), gravityDB_getDomain)

FinalizeTable ==
    /\ Ready
    /\ Call(Req("finalizeTable", 0, << >>, -1),
            LAMBDA s : Ret(gravityDB_finalizeTable(s), FALSE))

Count ==
    \E list \in 0 .. UNKNOWN_TABLE :
        /\ Ready
        /\ Call([Req("count", 0, << >>, -1) EXCEPT !.list = list],
                LAMBDA s : gravityDB_count(s, list))

GetRegexClientGroups ==
    \E c \in Clients, type \in {"REGEX_BLACKLIST", "REGEX_WHITELIST"},
       regexid \in {<<1>>, <<2, 1>>} :
        /\ Ready
        /\ Call([Req("get_regex_client_groups", c, << >>, -1)
                    EXCEPT !.regexid = regexid, !.type = type],
                LAMBDA s : gravityDB_get_regex_client_groups(s, c, regexid, type,
                    IF type = "REGEX_WHITELIST" THEN "vw_regex_whitelist"
                    ELSE "vw_regex_blacklist"))

\* Statement handles are addresses: only their identity matters.  Between
\* calls the model names the statements in the order of the variables that
\* hold them (the audit statement, table_stmt, then the three vectors).
VecSeq(v) == IF v = NullVec THEN << >> ELSE [i \in 1 .. NumClients |-> v[i - 1]]
HandleSeq ==
    <<auditlist_stmt, table_stmt>> \o VecSeq(whitelist_stmt)
       \o VecSeq(gravity_stmt) \o VecSeq(blacklist_stmt)
Names(hs) ==
    [h \in Range(hs) \cup {0} |->
       IF h = 0 THEN 0
       ELSE LET first == Least({j \in 1 .. Len(hs) : hs[j] = h})
            IN Cardinality({hs[j] : j \in 1 .. first} \ {0})]
Renamed(v, nm) == IF v = NullVec THEN NullVec ELSE [c \in Clients |-> nm[v[c]]]

\* The caller takes the result of the call.
Return ==
    /\ ~crashed
    /\ call # Idle
    /\ call' = Idle
    /\ \E nm \in {Names(HandleSeq)} :
         /\ auditlist_stmt' = nm[auditlist_stmt]
         /\ table_stmt' = nm[table_stmt]
         /\ whitelist_stmt' = Renamed(whitelist_stmt, nm)
         /\ gravity_stmt' = Renamed(gravity_stmt, nm)
         /\ blacklist_stmt' = Renamed(blacklist_stmt, nm)
         /\ stmts' = [n \in StmtSlots |->
                        IF \E h \in DOMAIN nm : h # 0 /\ nm[h] = n
                        THEN stmts[CHOOSE h \in DOMAIN nm : h # 0 /\ nm[h] = n]
                        ELSE FreeStmt]
    /\ UNCHANGED <<pid, main_process, this_process, gravityDB_opened,
                   gravity_db, per_client_regex, conns,
                   crashed, client_table, domain_audit, blocked_IP_v4,
                   blocked_IP_v6>>

\* The connection and statement-cache lifecycle with the four predicates.
Next ==
    \/ Return
    \/ Fork
    \/ Open
    \/ Close
    \/ PrepareClientStatements
    \/ InWhitelist
    \/ InGravity
    \/ InBlacklist
    \/ InAuditlist

Spec == Init /\ [][Next]_vars

\* The lifecycle and the predicates within one process.
NextProcess ==
    \/ Return
    \/ Open
    \/ Close
    \/ PrepareClientStatements
    \/ InWhitelist
    \/ InGravity
    \/ InBlacklist
    \/ InAuditlist

SpecProcess == Init /\ [][NextProcess]_vars

\* The same over the client table with a group-less record.
SpecNoGroups == InitNoGroups /\ [][NextProcess]_vars

\* Bulk listing, counting and regex groups of one process.
NextBulk ==
    \/ Return
    \/ Open
    \/ Close
    \/ GetTable
    \/ GetDomain
    \/ FinalizeTable
    \/ Count
    \/ GetRegexClientGroups
    \/ PrepareClientStatements

SpecBulk == Init /\ [][NextBulk]_vars

\* Counting over the connection lifecycle.
NextCount ==
    \/ Return
    \/ Open
    \/ Close
    \/ PrepareClientStatements
    \/ Count

SpecCount == Init /\ [][NextCount]_vars

\* Audit lookups over every pattern and domain name.
NextAudit ==
    \/ Return
    \/ Open
    \/ Close
    \/ InAuditlistAny

SpecAudit == InitAudit /\ [][NextAudit]_vars

\* The registry of externally blocked addresses.
NextBlocked ==
    \/ Return
    \/ InitBlockedIP
    \/ AddBlockedIP
    \/ IsBlockedIP

SpecBlocked == Init /\ [][NextBlocked]_vars

\* The regex bits of the clients over the calls of one process.
NextRegex ==
    \/ Return
    \/ Open
    \/ Close
    \/ GetRegexClientGroups

SpecRegex == Init /\ [][NextRegex]_vars

\* A bulk iteration interleaved with the calls that resolve groups or count.
NextIter ==
    \/ Return
    \/ GetTable
    \/ GetDomain
    \/ FinalizeTable
    \/ Count
    \/ PrepareClientStatements
    \/ InGravity

SpecIter == Init /\ [][NextIter]_vars

\* ---------------------------------------------------- vocabulary of claims
\* The group set of client c as the client table defines it.
GroupsOf(c) == IF ClientRecords(c) = 0 THEN <<0>> ELSE ClientByGroup(c)
\* Domain d is in the view restricted to the groups of client c.
InList(table, d, c) ==
    \E row \in ViewRows(table) : row[1] = d /\ row[2] \in Range(GroupsOf(c))

\* A public call has just returned (or aborted), and it was a call of op.
Called(op)   == call # Idle /\ call.op = op
Predicates   == {"in_whitelist", "in_gravity", "in_blacklist", "in_auditlist"}
\* Positions of the trace of the last call that hold an event of a kind.
Events(kinds) == {i \in 1 .. Len(call.log) : call.log[i][1] \in kinds}
\* The per-client handles stored before the last call.
PreHandles ==
    (VecRefs(call.pre.whitelist_stmt) \cup VecRefs(call.pre.gravity_stmt)
       \cup VecRefs(call.pre.blacklist_stmt)) \ {0}
StoreUnchanged ==
    /\ gravityDB_opened = call.pre.gravityDB_opened
    /\ gravity_db = call.pre.gravity_db
    /\ whitelist_stmt = call.pre.whitelist_stmt
    /\ gravity_stmt = call.pre.gravity_stmt
    /\ blacklist_stmt = call.pre.blacklist_stmt
    /\ auditlist_stmt = call.pre.auditlist_stmt
    /\ table_stmt = call.pre.table_stmt
    /\ stmts = call.pre.stmts
    /\ conns = call.pre.conns

\* ------------------------------------------------------------------- claims

\* C1: with no library call failing, in_gravity(D, c) returns true iff D is in
\* vw_gravity restricted to the groups of c, and in_blacklist(D, c) iff D is in
\* vw_blacklist restricted to them, the first call for c included.
C1_OwnClassHandle ==
    /\ (Called("in_gravity") /\ call.faults = {} /\ ~crashed)
          => (call.ret <=> InList("vw_gravity", call.domain, call.clientID))
    /\ (Called("in_blacklist") /\ call.faults = {} /\ ~crashed)
          => (call.ret <=> InList("vw_blacklist", call.domain, call.clientID))

\* C2 as stated: in_whitelist returns true iff the domain is in vw_whitelist for
\* the client's groups or the regex subsystem reports a match.
C2_WhitelistIffAlways ==
    (Called("in_whitelist") /\ ~crashed)
       => (call.ret <=> (\/ InList("vw_whitelist", call.domain, call.clientID)
                         \/ call.rx # -1))

\* C3: within one in_whitelist call the regex subsystem is asked at most once,
\* directly after domain_in_list returned false, and never when it returned
\* true.
C3_RegexOnlyAfterExactMiss ==
    Called("in_whitelist") =>
       /\ Cardinality(Events({"match_regex"})) <= 1
       /\ \A i \in Events({"match_regex"}) :
             /\ i > 1
             /\ call.log[i - 1] = <<"domain_in_list", 0, 0, "FALSE">>
       /\ (\E i \in Events({"domain_in_list"}) : call.log[i][4] = "TRUE")
             => Events({"match_regex"}) = {}

\* An exact hit while the regex subsystem would have matched too.
C3_Witness ==
    /\ Called("in_whitelist") /\ ~crashed
    /\ call.rx # -1
    /\ \E i \in Events({"domain_in_list"}) : call.log[i][4] = "TRUE"

\* C4: every call of a predicate returns a boolean and never aborts.
C4_PredicatesNeverAbort ==
    (call # Idle /\ call.op \in Predicates)
       => (~crashed /\ call.ret \in BOOLEAN)

\* C5: in a forked child no call binds, steps or resets a statement, or
\* prepares on a connection, created by another process.
C5_NoPreForkHandleUse ==
    (call # Idle /\ pid # 1) =>
       \A i \in Events({"bind", "step", "reset", "clear_bindings", "prepare"}) :
          call.log[i][2] # 0 => call.log[i][3] = pid

\* C6: every public entry point that reads or writes the cached statements
\* runs the fork check before its first access to them.
C6_ForkCheckFirst ==
    (call # Idle /\ call.op \in Predicates \cup {"prepare_client_statements",
                                                 "close"})
       => (call.log # << >> => call.log[1][1] = "check_fork")

\* C7: open() on an open store returns success and performs no native open,
\* whatever the state of the backing file.
C7_OpenTwiceSucceeds ==
    (Called("open") /\ call.pre.gravityDB_opened /\ call.pre.gravity_db # 0)
       => (call.ret = TRUE /\ Events({"native_open"}) = {})

\* C8: close() on an open store finalizes every non-null per-client handle and
\* the audit statement exactly once and drops them, then closes the
\* connection and marks the store closed; close() on a closed store does
\* nothing.
C8_CloseFinalizesOnce ==
    Called("close") =>
       IF call.pre.gravityDB_opened
       THEN LET hs == PreHandles \cup ({call.pre.auditlist_stmt} \ {0})
                cl == Events({"close_conn"})
            IN /\ ~crashed
               /\ \A h \in hs :
                     Cardinality({i \in Events({"finalize"}) :
                                     call.log[i][2] = h}) = 1
               /\ \A i \in Events({"finalize"}) :
                     /\ call.log[i][2] \in hs
                     /\ call.log[i][4] # "finalized"
                     /\ \A j \in cl : i < j
               /\ Cardinality(cl) = 1
               /\ \A j \in cl : call.log[j][2] = call.pre.gravity_db
               /\ whitelist_stmt = NullVec /\ gravity_stmt = NullVec
               /\ blacklist_stmt = NullVec /\ auditlist_stmt = 0
               /\ gravity_db = 0 /\ ~gravityDB_opened
       ELSE call.log = << >> /\ StoreUnchanged /\ ~crashed

\* C9: every per-client handle stored is null or a live handle on the current
\* connection; no call finalizes a handle twice or binds or steps a handle
\* that is finalized or whose connection is closed.
C9_StoredHandlesLive ==
    /\ ~crashed =>
         \A h \in (VecRefs(whitelist_stmt) \cup VecRefs(gravity_stmt)
                     \cup VecRefs(blacklist_stmt)) \ {0} :
            /\ stmts[h].sql # "free"
            /\ stmts[h].fin = 0
            /\ stmts[h].conn = gravity_db
            /\ gravity_db # 0
            /\ ~conns[gravity_db].closed
    /\ call # Idle =>
         /\ \A i \in Events({"finalize"}) : call.log[i][4] # "finalized"
         /\ \A i \in Events({"bind", "step"}) :
               call.log[i][2] # 0 => call.log[i][4] = "live"

\* A lookup through a stored handle after the store was closed and opened
\* again in the same process.
C9_Witness ==
    /\ call # Idle /\ call.op \in Predicates /\ ~crashed
    /\ pid = 1
    /\ gravity_db > 1
    /\ \E i \in Events({"bind"}) : call.log[i][2] \in PreHandles
    /\ call.ret = TRUE

\* C10: after a failed first preparation for a client the client's handles are
\* null and the next predicate call for the client, made with a healthy
\* database, prepares again and answers from the lists.
C10_RetryAfterFailedPreparation ==
    (/\ Called("prepare_client_statements") /\ ~crashed
     /\ call.ret = FALSE
     /\ call.pre.gravityDB_opened
     /\ call.pre.whitelist_stmt # NullVec
     /\ call.pre.whitelist_stmt[call.clientID] = 0)
       => LET r == in_whitelist(Cur({}), Dom1, call.clientID, -1) IN
          /\ ~r.crashed
          /\ r.ret = InList("vw_whitelist", Dom1, call.clientID)

\* C11: when the prepare of one of the three class queries fails inside
\* gravityDB_prepare_client_statements, the call returns failure, every handle
\* stored before the call and every handle the call prepared is finalized, and
\* the connection is closed.
C11_FailedPrepareClosesStore ==
    (Called("prepare_client_statements")
       /\ Events({"sql_error_prepare"}) # {})
       => /\ ~crashed
          /\ call.ret = FALSE
          /\ \A h \in PreHandles :
                \E i \in Events({"finalize"}) : call.log[i][2] = h
          /\ \A i \in Events({"query"}) :
                call.log[i][4] \in {"vw_whitelist", "vw_gravity", "vw_blacklist"}
                   => \E j \in Events({"finalize"}) :
                         j > i /\ call.log[j][2] = call.log[i][2]
          /\ \E j \in Events({"close_conn"}) :
                \A i \in Events({"finalize"}) : i < j
          /\ ~gravityDB_opened /\ gravity_db = 0
          /\ whitelist_stmt = NullVec /\ gravity_stmt = NullVec
          /\ blacklist_stmt = NullVec

\* C12 as stated: resolving the groups of a client that has no record in the
\* client table never issues the group-association query; once the counting
\* query is answered the resolution succeeds (the call goes on to prepare the
\* class queries), and the group set it returns is exactly {0}: the
\* statements prepared from it carry the groups "0".
C12_NoRecordGroupsZero ==
    (Called("prepare_client_statements") /\ ClientRecords(call.clientID) = 0)
       => /\ \A i \in Events({"query"}) : call.log[i][4] # "client_by_group"
          /\ \A i \in Events({"step"}) :
                \E j \in Events({"query", "sql_error_prepare"}) :
                   j > i /\ call.log[j][4] = "vw_whitelist"
          /\ \A i \in Events({"query"}) :
                (call.log[i][4] \in {"vw_whitelist", "vw_gravity", "vw_blacklist"}
                   /\ stmts[call.log[i][2]].sql = call.log[i][4])
                   => stmts[call.log[i][2]].groups = <<0>>
          /\ (call.ret = TRUE /\ ~crashed)
                => /\ stmts[whitelist_stmt[call.clientID]].groups = <<0>>
                   /\ stmts[gravity_stmt[call.clientID]].groups = <<0>>
                   /\ stmts[blacklist_stmt[call.clientID]].groups = <<0>>
\* The groups text names no group: it is "", or the null pointer that
\* get_client_querystr prints as (null).
NamesNoGroup(g) == \A i \in 1 .. Len(g) : g[i] < 0

\* C13: the groups resolved for a client whose record has no group are the
\* empty set: the class statements prepared for it carry no group id, never
\* "0"; and whenever in_whitelist, in_gravity or in_blacklist returns for such
\* a client, whether its statements were prepared before or by the call, the
\* exact lookup answered false for every domain: no domain_in_list of the
\* call returned true, and in_gravity and in_blacklist return false.
C13_NoGroupsMatchNothing ==
    /\ (Called("prepare_client_statements")
          /\ ClientRecords(call.clientID) = 1
          /\ ClientByGroup(call.clientID) = << >>)
         => /\ \A i \in Events({"query"}) :
                  (call.log[i][4] \in {"vw_whitelist", "vw_gravity", "vw_blacklist"}
                     /\ stmts[call.log[i][2]].sql = call.log[i][4])
                     => NamesNoGroup(stmts[call.log[i][2]].groups)
            /\ (call.ret = TRUE /\ ~crashed)
                  => /\ NamesNoGroup(stmts[whitelist_stmt[call.clientID]].groups)
                     /\ NamesNoGroup(stmts[gravity_stmt[call.clientID]].groups)
                     /\ NamesNoGroup(stmts[blacklist_stmt[call.clientID]].groups)
    /\ (call # Idle
          /\ call.op \in {"in_whitelist", "in_gravity", "in_blacklist"}
          /\ ClientRecords(call.clientID) = 1
          /\ ClientByGroup(call.clientID) = << >>
          /\ ~crashed)
         => /\ \A i \in Events({"domain_in_list"}) : call.log[i][4] = "FALSE"
            /\ call.op # "in_whitelist" => call.ret = FALSE
C13_Witness ==
    /\ call # Idle
    /\ call.op \in {"in_gravity", "in_blacklist"}
    /\ ClientRecords(call.clientID) = 1
    /\ ClientByGroup(call.clientID) = << >>
    /\ \E row \in ViewRows("vw_gravity") \cup ViewRows("vw_blacklist") :
          row[1] = call.domain
    /\ \E i \in Events({"step"}) :
          /\ call.log[i][2] # 0
          /\ stmts[call.log[i][2]].groups = << >>
          /\ stmts[call.log[i][2]].sql \in {"vw_gravity", "vw_blacklist"}
          /\ \E j \in Events({"domain_in_list"}) : j > i
    /\ call.ret = FALSE

\* The count queries the last call prepared.
CountQueries ==
    {i \in Events({"query"}) : call.log[i][4] # "domain_audit"}

\* C14: gravityDB_count(GRAVITY_TABLE) prepares only the read of the stored
\* gravity_count value and never a COUNT(DISTINCT domain); for every other
\* known list it prepares only the COUNT(DISTINCT domain) on the view of that
\* list; and a call in which no library call fails prepares that query
\* exactly once and returns its value.
C14_CountQueryPerList ==
    (Called("count") /\ call.list < UNKNOWN_TABLE)
       => /\ \A i \in CountQueries :
                call.log[i][4] =
                   IF call.list = GRAVITY_TABLE THEN "info_gravity_count"
                   ELSE "count_distinct_" \o tablename(call.list)
          /\ call.faults = {}
                => /\ Cardinality(CountQueries) = 1
                   /\ call.ret = IF call.list = GRAVITY_TABLE THEN gravity_count
                                 ELSE CountDistinct(tablename(call.list))
C14_Witness ==
    /\ Called("count")
    /\ call.list = GRAVITY_TABLE
    /\ \E i \in CountQueries : call.log[i][4] = "info_gravity_count"
    /\ call.ret = gravity_count
    /\ gravity_count # CountDistinct("vw_gravity")

\* C15: gravityDB_count returns DB_FAILED on every error path, that is
\* whenever it returns without having stepped its query to a row: store
\* unavailable, unknown list, query string not built, prepare or step failed.
C15_CountFailureSentinel ==
    (Called("count") /\ ~crashed
       /\ (\/ Events({"step"}) = {}
           \/ Events({"sql_error_step"}) # {}))
       => call.ret = DB_FAILED

\* Q ends with S.
EndsWith(q, s) ==
    Len(q) >= Len(s) /\ SubSeq(q, Len(q) - Len(s) + 1, Len(q)) = s
\* The match of query q against pattern p as C16 states it.
AuditMatches(p, q) ==
    IF p # << >> /\ p[1] = "*" THEN EndsWith(q, Tail(p)) ELSE q = p

\* C16: whenever in_auditlist steps the audit statement and no library call
\* fails, it returns true iff the stored pattern has no leading '*' and equals
\* the query, or has a leading '*' and the query ends with the rest of the
\* pattern.
C16_AuditMatchesSuffix ==
    (Called("in_auditlist") /\ ~crashed /\ call.faults = {}
       /\ Events({"step"}) # {})
       => (call.ret <=> \E p \in domain_audit : AuditMatches(p, call.domain))

\* The slots of a list that hold an address, the list of a family before and
\* after the last call, and both lists as the last call found them.
Entries(list) == {i \in 1 .. maxIPs : list[i] # NullAddr}
ListBefore(type) ==
    IF type = 4 THEN call.pre.blocked_IP_v4 ELSE call.pre.blocked_IP_v6
ListAfter(type) == IF type = 4 THEN blocked_IP_v4 ELSE blocked_IP_v6
RegistryUnchanged ==
    /\ blocked_IP_v4 = call.pre.blocked_IP_v4
    /\ blocked_IP_v6 = call.pre.blocked_IP_v6
\* addr is a textually valid address of the family.
ValidFor(addr, type) ==
    \/ type = 4 /\ addr \in ValidIPv4
    \/ type = 6 /\ addr \in ValidIPv6

\* C17: each list holds at most maxIPs (12) addresses, in maxIPs slots, and
\* add_blocked_IP for a family whose list holds 12 addresses returns false and
\* leaves both lists as they were.
C17_RegistryBounded ==
    /\ \A list \in {blocked_IP_v4, blocked_IP_v6} :
          list # NullList
             => /\ DOMAIN list = 1 .. maxIPs
                /\ Cardinality(Entries(list)) <= 12
    /\ (Called("add_blocked_IP") /\ call.type \in {4, 6}
          /\ Cardinality(Entries(ListBefore(call.type))) = 12)
         => (call.ret = FALSE /\ RegistryUnchanged)
C17_Witness ==
    /\ Called("add_blocked_IP")
    /\ call.type = 6
    /\ ValidFor(call.addr, 6)
    /\ Cardinality(Entries(call.pre.blocked_IP_v6)) = 12
    /\ Cardinality(Entries(blocked_IP_v4)) < 12
    /\ call.ret = FALSE

\* C18: is_blocked_IP(addr, type) returns true iff addr is not null, type is 4
\* or 6 and addr equals an entry of the list of that family.
C18_IsBlockedIffListed ==
    Called("is_blocked_IP")
       => (call.ret <=> /\ call.addr # NullAddr
                        /\ call.type \in {4, 6}
                        /\ \E i \in Entries(ListAfter(call.type)) :
                              ListAfter(call.type)[i] = call.addr)

\* The lists C19 names.
SeededIPv4 ==
    <<"0.0.0.0", "146.112.61.104", "146.112.61.105", "146.112.61.106",
      "146.112.61.107", "146.112.61.108", "146.112.61.109", "146.112.61.110",
      NullAddr, NullAddr, NullAddr, NullAddr>>
SeededIPv6 ==
    <<"::", "::ffff:146.112.61.104", "::ffff:146.112.61.105",
      "::ffff:146.112.61.106", "::ffff:146.112.61.107",
      "::ffff:146.112.61.108", "::ffff:146.112.61.109",
      "::ffff:146.112.61.110", NullAddr, NullAddr, NullAddr, NullAddr>>

\* C19 as stated: when init_blocked_IP returns, every add_blocked_IP call it made has
\* succeeded, the IPv4 list holds 0.0.0.0 and the seven block-page addresses
\* in this order, the IPv6 list holds :: and their seven v4-mapped forms, and
\* four slots of each list are empty; on these lists
\* is_blocked_IP("0.0.0.0", 4) is true and is_blocked_IP("1.2.3.4", type) is
\* false.
C19_SeededRegistry ==
    /\ Called("init_blocked_IP")
          => /\ call.ret = TRUE
             /\ blocked_IP_v4 = SeededIPv4
             /\ blocked_IP_v6 = SeededIPv6
             /\ Cardinality(Entries(blocked_IP_v4)) = 8
             /\ Cardinality(Entries(blocked_IP_v6)) = 8
    /\ (Called("is_blocked_IP")
          /\ call.pre.blocked_IP_v4 = SeededIPv4
          /\ call.pre.blocked_IP_v6 = SeededIPv6)
         => /\ (call.addr = "0.0.0.0" /\ call.type = 4) => call.ret = TRUE
            /\ call.addr = "1.2.3.4" => call.ret = FALSE
\* C20: add_blocked_IP with a type other than 4 and 6, or with an address
\* that is not a valid text of the family, returns false and leaves both
\* lists as they were; a call that returns true has put the address into the
\* first empty slot of the list of the family passed and changed nothing
\* else, and a call that returns false has changed nothing.
C20_AddValidatesAndAppends ==
    Called("add_blocked_IP")
       => /\ ~ValidFor(call.addr, call.type)
                => (call.ret = FALSE /\ RegistryUnchanged)
          /\ call.ret = FALSE => RegistryUnchanged
          /\ call.ret = TRUE
                => /\ ValidFor(call.addr, call.type)
                   /\ \E i \in 1 .. maxIPs :
                         /\ ListBefore(call.type)[i] = NullAddr
                         /\ \A j \in 1 .. (i - 1) :
                               ListBefore(call.type)[j] # NullAddr
                         /\ ListAfter(call.type) =
                               [ListBefore(call.type) EXCEPT ![i] = call.addr]
                   /\ ListAfter(10 - call.type) = ListBefore(10 - call.type)
C20_Witness ==
    /\ Called("add_blocked_IP")
    /\ call.type = 4
    /\ call.addr = "::1"
    /\ Cardinality(Entries(call.pre.blocked_IP_v4)) < 12
    /\ call.ret = FALSE

\* C21: a predicate called in a process that inherited an open store from the
\* process that opened it (through open, count or prepare_client_statements)
\* detects the change of process identity: the inherited connection is
\* dropped, whether or not a predicate was called before the fork.
C21_ForkDetectedAfterAnyOpen ==
    (call # Idle /\ call.op \in Predicates
       /\ call.pre.gravityDB_opened /\ call.pre.gravity_db # 0
       /\ call.pre.conns[call.pre.gravity_db].proc # call.pre.pid)
       => /\ gravity_db # call.pre.gravity_db
          /\ this_process = pid

\* The identity check of the last call fired: the calling process is not the
\* one recorded.
ForkDetected ==
    /\ call # Idle /\ call.op \in Predicates
    /\ call.pre.main_process # 0
    /\ call.pre.this_process # call.pre.pid
\* The handles stored after the last call that another process created.
InheritedConn == gravity_db # 0 /\ conns[gravity_db].proc # pid
InheritedAudit == auditlist_stmt # 0 /\ stmts[auditlist_stmt].proc # pid
InheritedClient ==
    \E h \in (VecRefs(whitelist_stmt) \cup VecRefs(gravity_stmt)
                \cup VecRefs(blacklist_stmt)) \ {0} : stmts[h].proc # pid

\* C22: when the identity check fires, the calling process drops the inherited
\* connection, the three vectors and the audit statement without finalizing
\* any of them and reopens: no statement created by another process is
\* finalized during the call, and none is still stored after it.
C22_InheritedDroppedNotFinalized ==
    ForkDetected
       => /\ \A i \in Events({"finalize"}) : call.log[i][3] = pid
          /\ ~InheritedConn
          /\ ~InheritedClient
          /\ ~InheritedAudit

\* The handle client c had in a vector before the last call, and has now.
PreHandle(vec, c) == IF call.pre[vec] = NullVec THEN 0 ELSE call.pre[vec][c]
PostHandle(vec, c) ==
    LET v == CASE vec = "whitelist_stmt" -> whitelist_stmt
               [] vec = "gravity_stmt"   -> gravity_stmt
               [] OTHER                  -> blacklist_stmt
    IN IF v = NullVec THEN 0 ELSE v[c]
ClientVecs == {"whitelist_stmt", "gravity_stmt", "blacklist_stmt"}

\* C23: gravityDB_prepare_client_statements prepares queries only when one of
\* the client's three handles is missing: with all three present it leaves
\* them as they are, and a handle that was not null is never replaced without
\* having been finalized.
C23_PrepareOnlyMissing ==
    (Called("prepare_client_statements") /\ ~crashed)
       => /\ (\A vec \in ClientVecs : PreHandle(vec, call.clientID) # 0)
               => /\ Events({"query"}) = {}
                  /\ \A vec \in ClientVecs :
                        PostHandle(vec, call.clientID)
                           = PreHandle(vec, call.clientID)
          /\ \A vec \in ClientVecs :
                LET h == PreHandle(vec, call.clientID) IN
                (h # 0 /\ PostHandle(vec, call.clientID) # h)
                   => \E i \in Events({"finalize"}) : call.log[i][2] = h

\* The statements the program refers to after the last call.
StoredStmts ==
    ({auditlist_stmt, table_stmt} \cup VecRefs(whitelist_stmt)
       \cup VecRefs(gravity_stmt) \cup VecRefs(blacklist_stmt)) \ {0}

\* C24: every return of domain_in_list after the bind was attempted (bind
\* failure, step failure, row) follows a reset and a clearing of the bindings
\* of the statement, no stored statement carries a bound domain between
\* lookups, and a lookup whose step fails returns false.
C24_ResetAndClearOnEveryPath ==
    (call # Idle /\ call.op \in Predicates /\ ~crashed)
       => /\ \A i \in Events({"bind"}) :
                call.log[i][2] # 0
                   => /\ \E j \in Events({"reset"}) :
                          j > i /\ call.log[j][2] = call.log[i][2]
                      /\ \E j \in Events({"clear_bindings"}) :
                          j > i /\ call.log[j][2] = call.log[i][2]
          /\ \A h \in StoredStmts : stmts[h].bound = << >>
          /\ \A i \in Events({"step_failed"}) :
                \E j \in Events({"domain_in_list"}) :
                   /\ j > i /\ call.log[j][4] = "FALSE"
                   /\ \A m \in Events({"domain_in_list"}) : m > i => m >= j

\* The ids of the rows the regex query of the last call returned, in order.
RowsReturned ==
    LET F[i \in 0 .. Len(call.log)] ==
            IF i = 0 THEN << >>
            ELSE IF call.log[i][1] = "row" THEN Append(F[i - 1], call.log[i][2])
            ELSE F[i - 1]
    IN F[Len(call.log)]
\* The bits the candidates regexIDs of the last call select for row ids.
BitsFor(ids) ==
    {(IF call.type = "REGEX_WHITELIST" THEN i - 1 + NumRegexBlacklist
      ELSE i - 1) :
        i \in {j \in 1 .. Len(call.regexid) :
                  /\ call.regexid[j] \in ids
                  /\ \A m \in 1 .. (j - 1) :
                        call.regexid[m] # call.regexid[j]}}
\* The row ids of the regex view of the last call in the groups of client c.
RegexIdsOf(c) ==
    {row[3] : row \in {r \in ViewRows(IF call.type = "REGEX_WHITELIST"
                                      THEN "vw_regex_whitelist"
                                      ELSE "vw_regex_blacklist") :
                         r[2] \in Range(GroupsOf(c))}}

\* C25: gravityDB_get_regex_client_groups adds to the bits of the client
\* exactly the bits of the row ids returned for the client's groups: bit i for
\* the first candidate regexIDs[i] equal to the id, shifted by the number of
\* blacklist regexes for the whitelist type.  It clears no bit, changes no
\* other client's bits, and sets no bit when it returns failure.
C25_RegexBitsExact ==
    (Called("get_regex_client_groups") /\ ~crashed)
       => /\ per_client_regex[call.clientID]
                = call.pre.per_client_regex[call.clientID]
                     \cup BitsFor(Range(RowsReturned))
          /\ \A c \in Clients \ {call.clientID} :
                per_client_regex[c] = call.pre.per_client_regex[c]
          /\ Range(RowsReturned) \subseteq RegexIdsOf(call.clientID)
          /\ (call.ret /\ call.faults = {})
               => Range(RowsReturned) = RegexIdsOf(call.clientID)
          /\ ~call.ret => per_client_regex = call.pre.per_client_regex

\* A whitelist call for the client of group 1 has set bit 2 (candidate 1 of
\* <<2, 1>>, shifted by NumRegexBlacklist) next to a bit set before.
C25_Witness ==
    /\ Called("get_regex_client_groups") /\ ~crashed /\ call.ret
    /\ call.type = "REGEX_WHITELIST" /\ call.regexid = <<2, 1>>
    /\ call.pre.per_client_regex[call.clientID] # {}
    /\ (1 + NumRegexBlacklist) \in per_client_regex[call.clientID]
    /\ (1 + NumRegexBlacklist) \notin call.pre.per_client_regex[call.clientID]

\* The calls that may run between getTable and finalizeTable.
Interleaved ==
    {"count", "prepare_client_statements", "get_regex_client_groups"}
       \cup Predicates
\* A bulk iteration was running when the last call began: table_stmt held the
\* statement gravityDB_getTable prepared.
IterationRunning ==
    /\ call # Idle
    /\ call.pre.table_stmt # 0
    /\ call.pre.stmts[call.pre.table_stmt].sql
          \in {tablename(l) : l \in 0 .. (UNKNOWN_TABLE - 1)}

\* C26: a call of count, prepare_client_statements, get_regex_client_groups
\* or a predicate made while a bulk iteration is running leaves table_stmt and
\* the statement it names as they were: not replaced, not finalized, at the
\* same row.
C26_IterationUndisturbed ==
    (IterationRunning /\ call.op \in Interleaved /\ ~crashed)
       => /\ table_stmt = call.pre.table_stmt
          /\ stmts[table_stmt] = call.pre.stmts[table_stmt]

\* No per-client handle is stored.
NoClientHandle ==
    VecRefs(whitelist_stmt) \cup VecRefs(gravity_stmt)
       \cup VecRefs(blacklist_stmt) \subseteq {0}

\* C27: whenever a public operation has returned, a store marked closed holds
\* no connection, no audit statement and no per-client handle, and a store
\* marked open has its connection, its audit statement and its three vectors.
C27_FlagMatchesResources ==
    ~crashed
       => /\ ~gravityDB_opened
               => gravity_db = 0 /\ auditlist_stmt = 0 /\ NoClientHandle
          /\ gravityDB_opened
               => /\ gravity_db # 0 /\ auditlist_stmt # 0
                  /\ whitelist_stmt # NullVec /\ gravity_stmt # NullVec
                  /\ blacklist_stmt # NullVec

=============================================================================



